---- MODULE Spec2Model ----
(***************************************************************************)
(* Model of the financial engine of pv-business-plan                       *)
(* (src/src/financial_models.py), of the array sizing of                   *)
(* src/src/solar_calculations.py and of the session scope of src/src/db.py.*)
(*                                                                         *)
(* Numbers.  Python floats are modelled as exact rationals [n, d] in       *)
(* lowest terms with d > 0.  The three IEEE specials numpy produces        *)
(* without raising use d = 0: [1,0] is +inf, [-1,0] is -inf and [0,0] is   *)
(* nan.  Rounding error of the floating point operations is not modelled.  *)
(***************************************************************************)
EXTENDS Integers, Sequences, FiniteSets, TLC

VARIABLES
    \* calculate_payback_period, called on its own
    pb_pc, pb_cash_flows, pb_result,
    \* calculate_npv, called on its own at two discount rates
    nv_pc, nv_cash_flows, nv_rate1, nv_rate2, nv_npv1, nv_npv2,
    \* run_financial_model, statement by statement: its argument, its position,
    \* the cash_flows array, the metrics computed so far (by local name), the
    \* number of calls made to the IRR solver, the error raised and the
    \* dictionary returned
    rm_pc, rm_inputs, rm_cash_flows, rm_locals, rm_irr_calls, rm_error, rm_result,
    \* sensitivity_analysis: its four arguments, its position, its locals
    \* (base_value, multipliers, the number of multipliers consumed,
    \* modified_inputs, results), the number of model runs made and the error
    \* raised
    sa_pc, sa_inputs, sa_parameter, sa_variation_range, sa_num_points,
    sa_base_value, sa_multipliers, sa_i, sa_modified_inputs, sa_results,
    sa_runs, sa_error,
    \* scenario_comparison: its two arguments, its position, its locals (the
    \* number of scenarios consumed, modified_inputs, results), the error raised
    \* and the table returned
    sc_pc, sc_base_inputs, sc_scenarios, sc_i, sc_modified_inputs, sc_results,
    sc_error, sc_table,
    \* calculate_array_size: its position, its two arguments that are used,
    \* the error raised and the dictionary returned
    ar_pc, ar_system_capacity_kw, ar_module_power_w, ar_error, ar_result,
    \* get_session around a with-body: its position, whether the session was
    \* created, the session methods called so far (in order), how the body,
    \* commit, rollback and close ended, the exception in flight and the
    \* exception that reaches the caller
    ss_pc, ss_created, ss_calls, ss_body, ss_commit, ss_rollback, ss_close,
    ss_pending, ss_propagated

pb_vars == <<pb_pc, pb_cash_flows, pb_result>>
nv_vars == <<nv_pc, nv_cash_flows, nv_rate1, nv_rate2, nv_npv1, nv_npv2>>
sa_vars == <<sa_pc, sa_inputs, sa_parameter, sa_variation_range, sa_num_points,
             sa_base_value, sa_multipliers, sa_i, sa_modified_inputs, sa_results,
             sa_runs, sa_error>>
sc_vars == <<sc_pc, sc_base_inputs, sc_scenarios, sc_i, sc_modified_inputs,
             sc_results, sc_error, sc_table>>
rm_vars == <<rm_pc, rm_inputs, rm_cash_flows, rm_locals, rm_irr_calls, rm_error,
             rm_result>>
ar_vars == <<ar_pc, ar_system_capacity_kw, ar_module_power_w, ar_error, ar_result>>
ss_vars == <<ss_pc, ss_created, ss_calls, ss_body, ss_commit, ss_rollback, ss_close,
             ss_pending, ss_propagated>>

----------------------------------------------------------------------------
(* Bounds of the model *)

\* longest cash-flow sequence handed to a reducer called on its own
MaxLen == 4

\* longest project lifetime of a model run
MaxLife == 3

\* largest num_points of a sensitivity sweep
MaxPoints == 3

\* largest number of scenarios of a comparison
MaxScenarios == 2

\* largest number of session calls a with-body makes
MaxBodyOps == 2

----------------------------------------------------------------------------
(* Rational arithmetic *)

Abs(i) == IF i < 0 THEN -i ELSE i

Sign(i) == IF i < 0 THEN -1 ELSE IF i > 0 THEN 1 ELSE 0

RECURSIVE Gcd(_, _)
Gcd(a, b) == IF b = 0 THEN a ELSE Gcd(b, a % b)

\* the float n/d; a zero denominator gives the IEEE result of the division
Rat(n, d) ==
    IF d = 0 THEN [n |-> Sign(n), d |-> 0]
    ELSE LET g == Gcd(Abs(n), Abs(d))
         IN  [n |-> Sign(d) * (n \div g), d |-> Abs(d) \div g]

Whole(i) == [n |-> i, d |-> 1]

Zero == Whole(0)
One  == Whole(1)
PosInf == [n |-> 1, d |-> 0]
NegInf == [n |-> -1, d |-> 0]
NaN    == [n |-> 0, d |-> 0]

IsFinite(x) == x.d # 0
IsNaN(x)    == x.d = 0 /\ x.n = 0

RNeg(x) == [n |-> -x.n, d |-> x.d]

RAbs(x) == [n |-> Abs(x.n), d |-> x.d]

RAdd(x, y) ==
    IF IsFinite(x) /\ IsFinite(y)
    THEN LET g == Gcd(x.d, y.d)
         IN  Rat(x.n * (y.d \div g) + y.n * (x.d \div g), (x.d \div g) * y.d)
    ELSE IF IsNaN(x) \/ IsNaN(y) THEN NaN
    ELSE IF ~IsFinite(x) /\ ~IsFinite(y) THEN (IF x.n = y.n THEN x ELSE NaN)
    ELSE IF IsFinite(x) THEN y ELSE x

RSub(x, y) == RAdd(x, RNeg(y))

RMul(x, y) ==
    IF IsFinite(x) /\ IsFinite(y) THEN Rat(x.n * y.n, x.d * y.d)
    ELSE [n |-> Sign(x.n) * Sign(y.n), d |-> 0]

\* numpy float division: x / 0 is +-inf or nan (a warning, not an exception)
RDiv(x, y) ==
    IF IsFinite(x) /\ IsFinite(y) THEN Rat(x.n * y.d, x.d * y.n)
    ELSE IF IsFinite(x) /\ ~IsNaN(y) THEN Zero
    ELSE IF IsFinite(y) /\ ~IsNaN(x) THEN [n |-> x.n * (IF y.n < 0 THEN -1 ELSE 1), d |-> 0]
    ELSE NaN

RECURSIVE IPow(_, _)
IPow(b, k) == IF k = 0 THEN 1 ELSE b * IPow(b, k - 1)

\* x ** k for a finite x and an integer k >= 0
RPow(x, k) == Rat(IPow(x.n, k), IPow(x.d, k))

\* comparisons; every comparison with nan is false, as in IEEE arithmetic
RLt(x, y) ==
    /\ ~IsNaN(x) /\ ~IsNaN(y)
    /\ IF IsFinite(x) /\ IsFinite(y) THEN x.n * y.d < y.n * x.d
       ELSE IF IsFinite(x) THEN y.n > 0
       ELSE IF IsFinite(y) THEN x.n < 0
       ELSE x.n < y.n

RLe(x, y) == ~IsNaN(x) /\ ~IsNaN(y) /\ ~RLt(y, x)
RGt(x, y) == RLt(y, x)
RGe(x, y) == RLe(y, x)

\* np.sum of s[from..Len(s)]; the sum of nothing is 0.0
RECURSIVE SumFrom(_, _)
SumFrom(s, from) ==
    IF from > Len(s) THEN Zero ELSE RAdd(s[from], SumFrom(s, from + 1))

\* the sequences over S of length lo..hi
SeqsOf(S, lo, hi) == UNION {[1..k -> S] : k \in lo..hi}

----------------------------------------------------------------------------
(* calculate_npv *)

\* a discounting slip: the flows are multiplied by the factors, not divided
calculate_npv_compounding(cash_flows, discount_rate) ==
    LET present_values ==
            [t \in 1..Len(cash_flows) |->
                RMul(cash_flows[t], RPow(RAdd(One, discount_rate), t - 1))]
    IN  SumFrom(present_values, 1)

\* np.sum(cash_flows / (1 + discount_rate) ** np.arange(len(cash_flows)));
\* TLA+ sequences are 1-based, so cash_flows[t + 1] is the flow of year t
calculate_npv(cash_flows, discount_rate) ==
    LET present_values ==
            [t \in 1..Len(cash_flows) |->
                RDiv(cash_flows[t], RPow(RAdd(One, discount_rate), t - 1))]
    IN  SumFrom(present_values, 1)

----------------------------------------------------------------------------
(* calculate_payback_period *)

\* np.cumsum(cash_flows)
cumsum(cash_flows) ==
    LET RECURSIVE Pre(_)
        Pre(k) == IF k = 0 THEN Zero ELSE RAdd(Pre(k - 1), cash_flows[k])
    IN  [k \in 1..Len(cash_flows) |-> Pre(k)]

\* a comparison slip: > 0 where the code has >= 0
FirstPositive(cumulative) ==
    LET hits == {k \in 1..Len(cumulative) : RGt(cumulative[k], Zero)}
    IN  IF hits = {} THEN 0 ELSE CHOOSE k \in hits : \A j \in hits : k <= j

\* np.where(cumulative >= 0)[0][0], as a 1-based position; 0 when there is none
FirstNonNegative(cumulative) ==
    LET hits == {k \in 1..Len(cumulative) : RGe(cumulative[k], Zero)}
    IN  IF hits = {} THEN 0 ELSE CHOOSE k \in hits : \A j \in hits : k <= j

\* a slip in the never-pays-back branch: the horizon is returned, not inf
calculate_payback_period_capped(cash_flows) ==
    LET cumulative_cash_flow == cumsum(cash_flows)
        ix == FirstNonNegative(cumulative_cash_flow)
        payback_index == ix - 1
    IN  IF ix = 0 THEN Whole(Len(cash_flows))
        ELSE IF payback_index = 0 THEN Zero
        ELSE RAdd(Whole(payback_index),
                  RDiv(RAbs(cumulative_cash_flow[ix - 1]), cash_flows[ix]))

\* an indexing slip: the divisor is the flow of the year before the crossing
calculate_payback_period_prevflow(cash_flows) ==
    LET cumulative_cash_flow == cumsum(cash_flows)
        ix == FirstNonNegative(cumulative_cash_flow)
        payback_index == ix - 1
    IN  IF ix = 0 THEN PosInf
        ELSE IF payback_index = 0 THEN Zero
        ELSE RAdd(Whole(payback_index),
                  RDiv(RAbs(cumulative_cash_flow[ix - 1]), cash_flows[ix - 1]))

\* the 0-based payback_index is ix - 1
calculate_payback_period(cash_flows) ==
    LET cumulative_cash_flow == cumsum(cash_flows)
        ix == FirstNonNegative(cumulative_cash_flow)
        payback_index == ix - 1
    IN  IF ix = 0 THEN PosInf
        ELSE IF payback_index = 0 THEN Zero
        ELSE LET prev_cumulative == cumulative_cash_flow[ix - 1]
                 curr_cash_flow == cash_flows[ix]
                 fraction == RDiv(RAbs(prev_cumulative), curr_cash_flow)
             IN  RAdd(Whole(payback_index), fraction)

\* the two early returns are passed: the interpolation lines are executed
InterpolationReached(cash_flows) ==
    LET ix == FirstNonNegative(cumsum(cash_flows))
    IN  ix # 0 /\ ix - 1 # 0

----------------------------------------------------------------------------
(* FinancialInputs *)

\* the fields of the dataclass, in declaration order
FieldNames == <<"system_capacity_kw", "total_capex", "annual_production_kwh",
                "electricity_rate_kwh", "opex_annual", "escalation_rate",
                "discount_rate", "project_lifetime_years", "incentives_total",
                "degradation_rate">>

Fields == {FieldNames[i] : i \in DOMAIN FieldNames}

\* A Python value: a number n/d tagged with its type.  Only an "int" can be
\* an array length or a range bound; a "str" stands for any non-numeric
\* object (the class docstring).
PyInt(i)   == [n |-> i, d |-> 1, t |-> "int"]
PyFloat(x) == [n |-> x.n, d |-> x.d, t |-> "float"]
PyStr      == [n |-> 0, d |-> 0, t |-> "str"]

\* the number a numeric Python value stands for, as a float
Num(v) == [n |-> v.n, d |-> v.d]

\* what getattr finds besides the fields: attributes of the class, here its
\* docstring
ClassAttributes == {"__doc__"}

HasAttr(obj, name) == name \in DOMAIN obj \/ name \in ClassAttributes

\* getattr(obj, name), for a name HasAttr accepts
GetAttr(obj, name) == IF name \in DOMAIN obj THEN obj[name] ELSE PyStr

\* setattr(obj, name, value): a data class takes any attribute name
SetAttr(obj, name, value) ==
    IF name \in DOMAIN obj THEN [obj EXCEPT ![name] = value]
    ELSE obj @@ (name :> value)

\* FinancialInputs(**vars(obj)): a new object with the fields of obj
Clone(obj) == [f \in Fields |-> obj[f]]

----------------------------------------------------------------------------
(* calculate_irr: numpy_financial's solver is outside the repository; its   *)
(* result is an unknown number that depends on the cash flows only          *)

npf_irr(values) == [irr_of |-> values]

calculate_irr(cash_flows) == npf_irr(cash_flows)

IsSolverResult(x) == "irr_of" \in DOMAIN x

----------------------------------------------------------------------------
(* calculate_lcoe *)

\* lifetime_years is an int here: the cash-flow construction has already
\* used it as an array length
calculate_lcoe(total_capex, opex_annual, annual_production_kwh, discount_rate, lifetime_years, degradation_rate) ==
    LET L == IF lifetime_years < 0 THEN 0 ELSE lifetime_years  \* np.arange
        production == [y \in 1..L |->
            RMul(annual_production_kwh, RPow(RSub(One, degradation_rate), y - 1))]
        discount_factors == [y \in 1..L |-> RPow(RAdd(One, discount_rate), y - 1)]
        pv_costs == RAdd(total_capex,
            SumFrom([y \in 1..L |-> RDiv(opex_annual, discount_factors[y])], 1))
        pv_production ==
            SumFrom([y \in 1..L |-> RDiv(production[y], discount_factors[y])], 1)
    IN  RDiv(pv_costs, pv_production)

----------------------------------------------------------------------------
(* round *)

\* round(x, ndigits): to the nearest multiple of 10^-ndigits, ties to even;
\* inf and nan are returned as they are
Round(x, ndigits) ==
    IF ~IsFinite(x) THEN x
    ELSE LET s == IPow(10, ndigits)
             num == x.n * s
             q == num \div x.d
             r == num - q * x.d
             up == 2 * r > x.d \/ (2 * r = x.d /\ q % 2 = 1)
         IN  Rat(IF up THEN q + 1 ELSE q, s)

\* round(irr * 100, 2), of a number or of the solver's unknown result
RoundPercent(irr) ==
    IF IsSolverResult(irr) THEN [round_percent_of |-> irr]
    ELSE Round(RMul(irr, Whole(100)), 2)

----------------------------------------------------------------------------
(* run_financial_model *)

\* np.zeros(project_lifetime_years + 1) and cash_flows[0] = ...: the error
\* the construction raises, "none" when it raises none
BuildError(inputs) ==
    LET lifetime == inputs.project_lifetime_years
    IN  IF lifetime.t # "int" THEN "TypeError"        \* not an array length
        ELSE IF lifetime.n + 1 < 0 THEN "ValueError"  \* negative dimensions
        ELSE IF lifetime.n + 1 = 0 THEN "IndexError"  \* cash_flows[0], size 0
        ELSE "none"

\* an exponent slip: degradation and escalation already act in year 1
YearCashFlow_compounded(inputs, year) ==
    LET production == RMul(Num(inputs.annual_production_kwh),
                           RPow(RSub(One, Num(inputs.degradation_rate)), year))
        electricity_rate == RMul(Num(inputs.electricity_rate_kwh),
                                 RPow(RAdd(One, Num(inputs.escalation_rate)), year))
        revenue == RMul(production, electricity_rate)
        opex == RMul(Num(inputs.opex_annual),
                     RPow(RAdd(One, Num(inputs.escalation_rate)), year))
    IN  RSub(revenue, opex)

\* the cash flow of year >= 1
YearCashFlow(inputs, year) ==
    LET production == RMul(Num(inputs.annual_production_kwh),
                           RPow(RSub(One, Num(inputs.degradation_rate)), year - 1))
        electricity_rate == RMul(Num(inputs.electricity_rate_kwh),
                                 RPow(RAdd(One, Num(inputs.escalation_rate)), year - 1))
        revenue == RMul(production, electricity_rate)
        opex == RMul(Num(inputs.opex_annual),
                     RPow(RAdd(One, Num(inputs.escalation_rate)), year - 1))
    IN  RSub(revenue, opex)

\* the cash-flow series once BuildError is "none"; element k is year k - 1
BuildCashFlows(inputs) ==
    [k \in 1..(inputs.project_lifetime_years.n + 1) |->
        IF k = 1
        THEN RNeg(RSub(Num(inputs.total_capex), Num(inputs.incentives_total)))
        ELSE YearCashFlow(inputs, k - 1)]

\* a guard slip: >= 0 where the code has > 0
IrrAttempted_nonNegative(npv) == RGe(npv, Zero)

\* the guard of the IRR computation
IrrAttempted(npv) == RGt(npv, Zero)

ComputeIrr(cash_flows, npv) ==
    IF IrrAttempted(npv) THEN calculate_irr(cash_flows) ELSE Zero

ComputeLcoe(inputs) ==
    calculate_lcoe(Num(inputs.total_capex), Num(inputs.opex_annual),
                   Num(inputs.annual_production_kwh), Num(inputs.discount_rate),
                   inputs.project_lifetime_years.n, Num(inputs.degradation_rate))

\* roi = (np.sum(cash_flows[1:]) / total_capex) * 100
ComputeRoi(inputs, cash_flows) ==
    RMul(RDiv(SumFrom(cash_flows, 2), Num(inputs.total_capex)), Whole(100))

\* year1_savings = cash_flows[1]: the error it raises, "none" when none
DeriveError(cash_flows) == IF Len(cash_flows) < 2 THEN "IndexError" ELSE "none"

\* the dictionary returned
MetricsResult(cash_flows, npv, irr, payback, lcoe, roi) ==
    [npv |-> Round(npv, 2),
     irr |-> RoundPercent(irr),
     payback_period_years |-> Round(payback, 2),
     lcoe |-> Round(lcoe, 4),
     roi_percentage |-> Round(roi, 2),
     annual_savings_year1 |-> Round(cash_flows[2], 2),
     total_lifetime_savings |-> Round(SumFrom(cash_flows, 2), 2),
     total_revenue |-> Round(SumFrom(cash_flows, 2), 2)]

NoMetrics == <<>>

\* the whole call: the error raised ("none" on return) and the dictionary
run_financial_model(inputs) ==
    IF BuildError(inputs) # "none"
    THEN [error |-> BuildError(inputs), metrics |-> NoMetrics]
    ELSE LET cash_flows == BuildCashFlows(inputs)
             npv == calculate_npv(cash_flows, Num(inputs.discount_rate))
             irr == ComputeIrr(cash_flows, npv)
             payback == calculate_payback_period(cash_flows)
             lcoe == ComputeLcoe(inputs)
             roi == ComputeRoi(inputs, cash_flows)
         IN  IF DeriveError(cash_flows) # "none"
             THEN [error |-> DeriveError(cash_flows), metrics |-> NoMetrics]
             ELSE [error |-> "none",
                   metrics |-> MetricsResult(cash_flows, npv, irr, payback, lcoe, roi)]

----------------------------------------------------------------------------
(* The reducers called on their own, on every sequence within the bounds *)

\* cash flows a caller may pass: whole and fractional amounts of either sign
CashValues == {Whole(-5), Whole(-3), Rat(-1, 2), Zero, Whole(2), Whole(3)}

PbIdle ==
    /\ pb_pc = "idle"
    /\ pb_cash_flows = <<>>
    /\ pb_result = Zero

PbInit ==
    /\ pb_pc = "start"
    /\ pb_cash_flows \in SeqsOf(CashValues, 0, MaxLen)
    /\ pb_result = Zero

PaybackCall ==
    /\ pb_pc = "start"
    /\ pb_result' = calculate_payback_period(pb_cash_flows)
    /\ pb_pc' = "done"
    /\ UNCHANGED pb_cash_flows

\* discount rates a caller may pass; -1 is excluded (1 + r = 0)
Rates == {Whole(-3), Whole(-2), Rat(-1, 2), Zero, One, Whole(2), Whole(3)}

NpvCashValues == {Whole(-3), Whole(-1), Zero, Whole(1), Whole(4)}

NvIdle ==
    /\ nv_pc = "idle"
    /\ nv_cash_flows = <<>>
    /\ nv_rate1 = Zero /\ nv_rate2 = Zero
    /\ nv_npv1 = Zero /\ nv_npv2 = Zero

\* non-empty sequences, one shorter than for the payback: every sequence is
\* paired with every two rates
NvInit ==
    /\ nv_pc = "start"
    /\ nv_cash_flows \in SeqsOf(NpvCashValues, 1, MaxLen - 1)
    /\ nv_rate1 \in Rates /\ nv_rate2 \in Rates
    /\ nv_npv1 = Zero /\ nv_npv2 = Zero

NpvCall ==
    /\ nv_pc = "start"
    /\ nv_npv1' = calculate_npv(nv_cash_flows, nv_rate1)
    /\ nv_npv2' = calculate_npv(nv_cash_flows, nv_rate2)
    /\ nv_pc' = "done"
    /\ UNCHANGED <<nv_cash_flows, nv_rate1, nv_rate2>>

----------------------------------------------------------------------------
(* run_financial_model, one action per statement group *)

\* a FinancialInputs object as a caller constructs it: float fields and an
\* int lifetime
MakeInputs(capex, production, rate, opex, escalation, discount, lifetime, incentives, degradation) ==
    [system_capacity_kw     |-> PyFloat(Whole(10)),
     total_capex            |-> PyFloat(capex),
     annual_production_kwh  |-> PyFloat(production),
     electricity_rate_kwh   |-> PyFloat(rate),
     opex_annual            |-> PyFloat(opex),
     escalation_rate        |-> PyFloat(escalation),
     discount_rate          |-> PyFloat(discount),
     project_lifetime_years |-> PyInt(lifetime),
     incentives_total       |-> PyFloat(incentives),
     degradation_rate       |-> PyFloat(degradation)]

\* lifetimes a caller may pass: the dataclass checks nothing
Lifetimes == (-2)..MaxLife

RunInputs ==
    {MakeInputs(capex, production, rate, opex, escalation, discount, lifetime,
                incentives, degradation) :
        capex \in {Whole(4), Whole(10)},
        production \in {Zero, Whole(8)},
        rate \in {Rat(1, 2), One},
        opex \in {Zero, One, Whole(6)},
        escalation \in {Zero, Rat(1, 2)},
        discount \in {Zero, One},
        lifetime \in Lifetimes,
        incentives \in {Zero, Whole(12)},
        degradation \in {Zero, Rat(1, 2)}}

RmIdle ==
    /\ rm_pc = "idle"
    /\ rm_inputs = NoMetrics
    /\ rm_cash_flows = <<>>
    /\ rm_locals = NoMetrics
    /\ rm_irr_calls = 0
    /\ rm_error = "none"
    /\ rm_result = NoMetrics

RmInit ==
    /\ rm_pc = "build"
    /\ rm_inputs \in RunInputs
    /\ rm_cash_flows = <<>>
    /\ rm_locals = NoMetrics
    /\ rm_irr_calls = 0
    /\ rm_error = "none"
    /\ rm_result = NoMetrics

RmRaise(error) ==
    /\ rm_pc' = "raised"
    /\ rm_error' = error

\* cash_flows = np.zeros(...); cash_flows[0] = ...; the loop over the years
RmBuild ==
    /\ rm_pc = "build"
    /\ IF BuildError(rm_inputs) # "none"
       THEN /\ RmRaise(BuildError(rm_inputs))
            /\ UNCHANGED rm_cash_flows
       ELSE /\ rm_cash_flows' = BuildCashFlows(rm_inputs)
            /\ rm_pc' = "npv"
            /\ UNCHANGED rm_error
    /\ UNCHANGED <<rm_inputs, rm_locals, rm_irr_calls, rm_result>>

\* npv = calculate_npv(cash_flows, inputs.discount_rate)
RmNpv ==
    /\ rm_pc = "npv"
    /\ rm_locals' = rm_locals @@
          ("npv" :> calculate_npv(rm_cash_flows, Num(rm_inputs.discount_rate)))
    /\ rm_pc' = "irr"
    /\ UNCHANGED <<rm_inputs, rm_cash_flows, rm_irr_calls, rm_error, rm_result>>

\* irr = calculate_irr(cash_flows) if npv > 0 else 0.0
RmIrr ==
    /\ rm_pc = "irr"
    /\ rm_locals' = rm_locals @@ ("irr" :> ComputeIrr(rm_cash_flows, rm_locals.npv))
    /\ rm_irr_calls' = IF IrrAttempted(rm_locals.npv) THEN rm_irr_calls + 1
                       ELSE rm_irr_calls
    /\ rm_pc' = "payback"
    /\ UNCHANGED <<rm_inputs, rm_cash_flows, rm_error, rm_result>>

\* payback = calculate_payback_period(cash_flows)
RmPayback ==
    /\ rm_pc = "payback"
    /\ rm_locals' = rm_locals @@ ("payback" :> calculate_payback_period(rm_cash_flows))
    /\ rm_pc' = "lcoe"
    /\ UNCHANGED <<rm_inputs, rm_cash_flows, rm_irr_calls, rm_error, rm_result>>

\* lcoe = calculate_lcoe(...)
RmLcoe ==
    /\ rm_pc = "lcoe"
    /\ rm_locals' = rm_locals @@ ("lcoe" :> ComputeLcoe(rm_inputs))
    /\ rm_pc' = "derive"
    /\ UNCHANGED <<rm_inputs, rm_cash_flows, rm_irr_calls, rm_error, rm_result>>

\* total_revenue, roi, year1_savings, lifetime_savings and the return
RmDerive ==
    /\ rm_pc = "derive"
    /\ rm_locals' = rm_locals @@ ("roi" :> ComputeRoi(rm_inputs, rm_cash_flows))
    /\ IF DeriveError(rm_cash_flows) # "none"
       THEN /\ RmRaise(DeriveError(rm_cash_flows))
            /\ UNCHANGED rm_result
       ELSE /\ rm_result' = MetricsResult(rm_cash_flows, rm_locals.npv,
                    rm_locals.irr, rm_locals.payback, rm_locals.lcoe,
                    ComputeRoi(rm_inputs, rm_cash_flows))
            /\ rm_pc' = "returned"
            /\ UNCHANGED rm_error
    /\ UNCHANGED <<rm_inputs, rm_cash_flows, rm_irr_calls>>

----------------------------------------------------------------------------
(* sensitivity_analysis *)

\* np.linspace(start, stop, num) for num >= 0: start + i * step, the last
\* sample set to stop
linspace(start, stop, num) ==
    [k \in 1..num |->
        IF k = 1 THEN start
        ELSE IF k = num THEN stop
        ELSE RAdd(start, RMul(Whole(k - 1), RDiv(RSub(stop, start), Whole(num - 1))))]

\* base cases: inputs that keep the data model's invariant (lifetime >= 1)
BaseCases ==
    {MakeInputs(Whole(10), Whole(8), One, One, Rat(1, 2), discount, lifetime,
                incentives, Rat(1, 2)) :
        discount \in {Zero, One},
        lifetime \in 1..MaxLife,
        incentives \in {Zero, Whole(12)}}

\* parameter names a caller may pass: the fields, a class attribute and a
\* name the object does not have
ParameterNames == Fields \cup ClassAttributes \cup {"capex"}

\* (low multiplier, high multiplier)
VariationRanges == {<<One, One>>, <<Rat(1, 2), Rat(3, 2)>>, <<Zero, Whole(2)>>,
                    <<Whole(2), Rat(1, 2)>>}

SaIdle ==
    /\ sa_pc = "idle"
    /\ sa_inputs = NoMetrics
    /\ sa_parameter = ""
    /\ sa_variation_range = <<>>
    /\ sa_num_points = 0
    /\ sa_base_value = PyStr
    /\ sa_multipliers = <<>>
    /\ sa_i = 0
    /\ sa_modified_inputs = NoMetrics
    /\ sa_results = <<>>
    /\ sa_runs = 0
    /\ sa_error = "none"

SaInit ==
    /\ sa_pc = "start"
    /\ sa_inputs \in BaseCases
    /\ sa_parameter \in ParameterNames
    /\ sa_variation_range \in VariationRanges
    /\ sa_num_points \in (-1)..MaxPoints
    /\ sa_base_value = PyStr
    /\ sa_multipliers = <<>>
    /\ sa_i = 0
    /\ sa_modified_inputs = NoMetrics
    /\ sa_results = <<>>
    /\ sa_runs = 0
    /\ sa_error = "none"

SaRaise(error) ==
    /\ sa_pc' = "raised"
    /\ sa_error' = error

\* the row appended for one multiplier
SensitivityRow(base_value, mult, metrics) ==
    [parameter_value |-> PyFloat(RMul(Num(base_value), mult)),
     multiplier |-> mult,
     npv |-> metrics.npv,
     irr |-> metrics.irr,
     payback_period |-> metrics.payback_period_years]

\* the inputs of one sweep point: a clone of the base with the parameter
\* overwritten by base_value * mult, an np.float64
ModifiedInputs(inputs, parameter, base_value, mult) ==
    SetAttr(Clone(inputs), parameter, PyFloat(RMul(Num(base_value), mult)))

\* a cloning slip: modified_inputs is the caller's object itself, so setattr
\* writes into the base
BaseAfterSetattr_aliased(base_inputs, modified_inputs) == modified_inputs

\* the caller's object after the setattr calls on modified_inputs:
\* FinancialInputs(**vars(...)) built a separate object, whose field values
\* are immutable numbers, so the base keeps every attribute
BaseAfterSetattr(base_inputs, modified_inputs) == base_inputs

\* base_value = getattr(inputs, parameter); multipliers = np.linspace(...);
\* results = []
SaStart ==
    /\ sa_pc = "start"
    /\ IF ~HasAttr(sa_inputs, sa_parameter)
       THEN /\ SaRaise("AttributeError")
            /\ UNCHANGED <<sa_base_value, sa_multipliers>>
       ELSE IF sa_num_points < 0
       THEN /\ SaRaise("ValueError")
            /\ sa_base_value' = GetAttr(sa_inputs, sa_parameter)
            /\ UNCHANGED sa_multipliers
       ELSE /\ sa_base_value' = GetAttr(sa_inputs, sa_parameter)
            /\ sa_multipliers' = linspace(sa_variation_range[1],
                                          sa_variation_range[2], sa_num_points)
            /\ sa_pc' = "loop"
            /\ UNCHANGED sa_error
    /\ UNCHANGED <<sa_inputs, sa_parameter, sa_variation_range, sa_num_points,
                   sa_i, sa_modified_inputs, sa_results, sa_runs>>

\* one pass of the loop body, for the next multiplier
SaPoint ==
    /\ sa_pc = "loop"
    /\ sa_i < Len(sa_multipliers)
    /\ LET mult == sa_multipliers[sa_i + 1]
           modified_inputs ==
               ModifiedInputs(sa_inputs, sa_parameter, sa_base_value, mult)
           outcome == run_financial_model(modified_inputs)
       IN  IF sa_base_value.t = "str"
           THEN \* base_value * mult raises before the clone is written
                /\ SaRaise("TypeError")
                /\ sa_modified_inputs' = Clone(sa_inputs)
                /\ UNCHANGED <<sa_inputs, sa_i, sa_results, sa_runs>>
           ELSE /\ sa_modified_inputs' = modified_inputs
                /\ sa_inputs' = BaseAfterSetattr(sa_inputs, modified_inputs)
                /\ sa_runs' = sa_runs + 1
                /\ IF outcome.error # "none"
                   THEN /\ SaRaise(outcome.error)
                        /\ UNCHANGED <<sa_i, sa_results>>
                   ELSE /\ sa_results' = Append(sa_results,
                               SensitivityRow(sa_base_value, mult, outcome.metrics))
                        /\ sa_i' = sa_i + 1
                        /\ UNCHANGED <<sa_pc, sa_error>>
    /\ UNCHANGED <<sa_parameter, sa_variation_range, sa_num_points,
                   sa_base_value, sa_multipliers>>

\* return pd.DataFrame(results)
SaReturn ==
    /\ sa_pc = "loop"
    /\ sa_i = Len(sa_multipliers)
    /\ sa_pc' = "returned"
    /\ UNCHANGED <<sa_inputs, sa_parameter, sa_variation_range, sa_num_points,
                   sa_base_value, sa_multipliers, sa_i, sa_modified_inputs,
                   sa_results, sa_runs, sa_error>>

----------------------------------------------------------------------------
(* scenario_comparison *)

Columns == {"scenario", "npv", "irr", "payback_period_years", "lcoe",
            "roi_percentage"}

\* metrics["scenario"] = name
LabelledRow(metrics, name) == metrics @@ ("scenario" :> name)

\* the loop over modifications.items(): setattr for each, in order
RECURSIVE ApplyModifications(_, _)
ApplyModifications(obj, modifications) ==
    IF modifications = <<>> THEN obj
    ELSE ApplyModifications(
            SetAttr(obj, Head(modifications).param, Head(modifications).value),
            Tail(modifications))

\* the base-case slip: the first scenario's overrides reach the base row
BaseCaseOutcome_overridden(base_inputs, scenarios) ==
    IF scenarios = <<>> THEN run_financial_model(base_inputs)
    ELSE run_financial_model(
            ApplyModifications(Clone(base_inputs), scenarios[1].modifications))

\* base_metrics = run_financial_model(base_inputs)
BaseCaseOutcome(base_inputs, scenarios) == run_financial_model(base_inputs)

\* a tabulation slip: rows repeating an earlier label are dropped
SelectColumns_deduplicated(results) ==
    LET keep == {k \in DOMAIN results :
                    \A j \in 1..(k - 1) : results[j].scenario # results[k].scenario}
        RECURSIVE Pick(_)
        Pick(k) == IF k > Len(results) THEN <<>>
                   ELSE IF k \in keep
                   THEN <<[c \in Columns |-> results[k][c]]>> \o Pick(k + 1)
                   ELSE Pick(k + 1)
    IN  Pick(1)

\* pd.DataFrame(results)[[...]]: one table row per dictionary, in list order,
\* with the six columns
SelectColumns(results) ==
    [k \in DOMAIN results |-> [c \in Columns |-> results[k][c]]]

Override(param, value) == [param |-> param, value |-> value]

\* override dictionaries a caller may pass, as item sequences
Modifications ==
    {<<>>,
     <<Override("total_capex", PyFloat(Whole(4)))>>,
     <<Override("project_lifetime_years", PyInt(2))>>,
     <<Override("project_lifetime_years", PyFloat(Whole(2)))>>,
     <<Override("opex_annual", PyFloat(Whole(6))),
       Override("discount_rate", PyFloat(One))>>,
     <<Override("capex", PyFloat(Whole(4)))>>}

ScenarioNames == {"Optimistic", "Pessimistic", "Base Case"}

\* ordered mappings: the keys of a dict are distinct
ScenarioMappings ==
    {sc \in SeqsOf([name : ScenarioNames, modifications : Modifications],
                   0, MaxScenarios) :
        \A i, j \in DOMAIN sc : i # j => sc[i].name # sc[j].name}

ScIdle ==
    /\ sc_pc = "idle"
    /\ sc_base_inputs = NoMetrics
    /\ sc_scenarios = <<>>
    /\ sc_i = 0
    /\ sc_modified_inputs = NoMetrics
    /\ sc_results = <<>>
    /\ sc_error = "none"
    /\ sc_table = <<>>

ScInit ==
    /\ sc_pc = "start"
    /\ sc_base_inputs \in BaseCases
    /\ sc_scenarios \in ScenarioMappings
    /\ sc_i = 0
    /\ sc_modified_inputs = NoMetrics
    /\ sc_results = <<>>
    /\ sc_error = "none"
    /\ sc_table = <<>>

ScRaise(error) ==
    /\ sc_pc' = "raised"
    /\ sc_error' = error

\* results = []; the base case
ScBaseCase ==
    /\ sc_pc = "start"
    /\ LET outcome == BaseCaseOutcome(sc_base_inputs, sc_scenarios)
       IN  IF outcome.error # "none"
           THEN /\ ScRaise(outcome.error)
                /\ UNCHANGED sc_results
           ELSE /\ sc_results' = <<LabelledRow(outcome.metrics, "Base Case")>>
                /\ sc_pc' = "loop"
                /\ UNCHANGED sc_error
    /\ UNCHANGED <<sc_base_inputs, sc_scenarios, sc_i, sc_modified_inputs, sc_table>>

\* one pass of the loop over scenarios.items()
ScScenario ==
    /\ sc_pc = "loop"
    /\ sc_i < Len(sc_scenarios)
    /\ LET scenario == sc_scenarios[sc_i + 1]
           modified_inputs ==
               ApplyModifications(Clone(sc_base_inputs), scenario.modifications)
           outcome == run_financial_model(modified_inputs)
       IN  /\ sc_modified_inputs' = modified_inputs
           /\ sc_base_inputs' = BaseAfterSetattr(sc_base_inputs, modified_inputs)
           /\ IF outcome.error # "none"
              THEN /\ ScRaise(outcome.error)
                   /\ UNCHANGED <<sc_i, sc_results>>
              ELSE /\ sc_results' = Append(sc_results,
                          LabelledRow(outcome.metrics, scenario.name))
                   /\ sc_i' = sc_i + 1
                   /\ UNCHANGED <<sc_pc, sc_error>>
    /\ UNCHANGED <<sc_scenarios, sc_table>>

\* df = pd.DataFrame(results); return df[[...]]
ScReturn ==
    /\ sc_pc = "loop"
    /\ sc_i = Len(sc_scenarios)
    /\ sc_table' = SelectColumns(sc_results)
    /\ sc_pc' = "returned"
    /\ UNCHANGED <<sc_base_inputs, sc_scenarios, sc_i, sc_modified_inputs,
                   sc_results, sc_error>>

----------------------------------------------------------------------------
(* calculate_array_size (src/src/solar_calculations.py) *)

\* a rounding slip: one module more than the whole part, on exact division too
Ceil_floorPlusOne(x) == (x.n \div x.d) + 1

\* int(np.ceil(x)) of a finite number
Ceil(x) == -((-x.n) \div x.d)

\* module_efficiency is not used by the function
calculate_array_size(system_capacity_kw, module_power_w) ==
    LET system_capacity_w == RMul(system_capacity_kw, Whole(1000))
        num_modules == Ceil(RDiv(system_capacity_w, Whole(module_power_w)))
        module_length == Whole(2)
        module_width == One
        module_area == RMul(module_length, module_width)
        total_area_m2 == RMul(Whole(num_modules), module_area)
        total_area_ft2 == RMul(total_area_m2, Rat(10764, 1000))
    IN  [num_modules |-> num_modules,
         total_area_m2 |-> Round(total_area_m2, 2),
         total_area_ft2 |-> Round(total_area_ft2, 2),
         module_power_w |-> module_power_w,
         actual_system_capacity_kw |->
             Round(Rat(num_modules * module_power_w, 1000), 2)]

\* capacities a caller may ask for, in watts: below, at and above whole
\* numbers of modules, with and without thousandths of a kW
RequestedWatts == {1, 249, 250, 252, 400, 401, 500, 502, 503, 800, 1000, 1004,
                   1005, 2008, 2500, 9999, 10000, 10001}

ArrayCapacities == {Rat(w, 1000) : w \in RequestedWatts}

\* module ratings a caller may pass; 0 makes the division raise
ModulePowers == {0, 250, 252, 400, 502, 1004}

ArIdle ==
    /\ ar_pc = "idle"
    /\ ar_system_capacity_kw = Zero
    /\ ar_module_power_w = 0
    /\ ar_error = "none"
    /\ ar_result = NoMetrics

ArInit ==
    /\ ar_pc = "start"
    /\ ar_system_capacity_kw \in ArrayCapacities
    /\ ar_module_power_w \in ModulePowers
    /\ ar_error = "none"
    /\ ar_result = NoMetrics

\* the whole call
ArCall ==
    /\ ar_pc = "start"
    /\ IF ar_module_power_w = 0
       THEN /\ ar_pc' = "raised"
            /\ ar_error' = "ZeroDivisionError"
            /\ UNCHANGED ar_result
       ELSE /\ ar_result' = calculate_array_size(ar_system_capacity_kw,
                                                 ar_module_power_w)
            /\ ar_pc' = "returned"
            /\ UNCHANGED ar_error
    /\ UNCHANGED <<ar_system_capacity_kw, ar_module_power_w>>

----------------------------------------------------------------------------
(* get_session (src/src/db.py) *)

\* how a call ends: it returns, or raises an exception derived from
\* Exception, or one derived from BaseException only (KeyboardInterrupt,
\* SystemExit)
Outcomes == {"ok", "Exception", "BaseException"}

Exc(origin, kind) == [origin |-> origin, kind |-> kind]

NoException == Exc("none", "none")

\* a handler slip: a bare except, which catches everything
Caught_bare(kind) == TRUE

\* except Exception
Caught(kind) == kind = "Exception"

\* what a with-body does with the session
BodyOps == {"add", "query"}

SsIdle ==
    /\ ss_pc = "idle"
    /\ ss_created = FALSE
    /\ ss_calls = <<>>
    /\ ss_body = "none"
    /\ ss_commit = "none"
    /\ ss_rollback = "none"
    /\ ss_close = "none"
    /\ ss_pending = NoException
    /\ ss_propagated = NoException

SsInit ==
    /\ ss_pc = "enter"
    /\ ss_created = FALSE
    /\ ss_calls = <<>>
    /\ ss_body = "none"
    /\ ss_commit = "none"
    /\ ss_rollback = "none"
    /\ ss_close = "none"
    /\ ss_pending = NoException
    /\ ss_propagated = NoException

\* engine = get_shared_engine(); SessionLocal.configure(bind=engine);
\* session = SessionLocal(): outside the try, a failure reaches the caller
\* before the body runs
SsEnter ==
    /\ ss_pc = "enter"
    /\ \E ok \in BOOLEAN :
          IF ok
          THEN /\ ss_created' = TRUE
               /\ ss_pc' = "body"
               /\ ss_body' = "running"
               /\ UNCHANGED ss_propagated
          ELSE /\ ss_propagated' = Exc("get_shared_engine", "Exception")
               /\ ss_pc' = "done"
               /\ UNCHANGED <<ss_created, ss_body>>
    /\ UNCHANGED <<ss_calls, ss_commit, ss_rollback, ss_close, ss_pending>>

\* yield session: the with-body uses the session
SsUse ==
    /\ ss_pc = "body"
    /\ Len(ss_calls) < MaxBodyOps
    /\ \E op \in BodyOps : ss_calls' = Append(ss_calls, op)
    /\ UNCHANGED <<ss_pc, ss_created, ss_body, ss_commit, ss_rollback, ss_close,
                   ss_pending, ss_propagated>>

\* the with-body ends: control returns to the yield, normally or with the
\* body's exception thrown in
SsBodyEnd ==
    /\ ss_pc = "body"
    /\ \E o \in Outcomes :
          IF o = "ok"
          THEN /\ ss_body' = "finished"
               /\ ss_pc' = "commit"
               /\ UNCHANGED ss_pending
          ELSE /\ ss_body' = o
               /\ ss_pending' = Exc("body", o)
               /\ ss_pc' = "except"
    /\ UNCHANGED <<ss_created, ss_calls, ss_commit, ss_rollback, ss_close,
                   ss_propagated>>

\* session.commit()
SsCommit ==
    /\ ss_pc = "commit"
    /\ ss_calls' = Append(ss_calls, "commit")
    /\ \E o \in Outcomes :
          /\ ss_commit' = o
          /\ IF o = "ok"
             THEN /\ ss_pc' = "finally"
                  /\ UNCHANGED ss_pending
             ELSE /\ ss_pending' = Exc("commit", o)
                  /\ ss_pc' = "except"
    /\ UNCHANGED <<ss_created, ss_body, ss_rollback, ss_close, ss_propagated>>

\* except Exception: the handler is entered or passed over
SsExcept ==
    /\ ss_pc = "except"
    /\ ss_pc' = IF Caught(ss_pending.kind) THEN "rollback" ELSE "finally"
    /\ UNCHANGED <<ss_created, ss_calls, ss_body, ss_commit, ss_rollback, ss_close,
                   ss_pending, ss_propagated>>

\* session.rollback(); raise
SsRollback ==
    /\ ss_pc = "rollback"
    /\ ss_calls' = Append(ss_calls, "rollback")
    /\ \E o \in Outcomes :
          /\ ss_rollback' = o
          /\ ss_pending' = IF o = "ok" THEN ss_pending ELSE Exc("rollback", o)
    /\ ss_pc' = "finally"
    /\ UNCHANGED <<ss_created, ss_body, ss_commit, ss_close, ss_propagated>>

\* finally: session.close(); then the exception in flight, if any, leaves
\* the generator
SsClose ==
    /\ ss_pc = "finally"
    /\ ss_calls' = Append(ss_calls, "close")
    /\ \E o \in Outcomes :
          /\ ss_close' = o
          /\ ss_propagated' = IF o = "ok" THEN ss_pending ELSE Exc("close", o)
    /\ ss_pc' = "done"
    /\ UNCHANGED <<ss_created, ss_body, ss_commit, ss_rollback, ss_pending>>

----------------------------------------------------------------------------
(* Specifications *)

vars == <<pb_vars, nv_vars, rm_vars, sa_vars, sc_vars, ar_vars, ss_vars>>

\* calculate_payback_period on every bounded sequence
PaybackNext == PaybackCall /\ UNCHANGED <<nv_vars, rm_vars, sa_vars, sc_vars, ar_vars, ss_vars>>
InitPayback == PbInit /\ NvIdle /\ RmIdle /\ SaIdle /\ ScIdle /\ ArIdle /\ SsIdle
SpecPayback == InitPayback /\ [][PaybackNext]_vars

\* calculate_npv on every bounded sequence and pair of rates
NpvNext == NpvCall /\ UNCHANGED <<pb_vars, rm_vars, sa_vars, sc_vars, ar_vars, ss_vars>>
InitNpv == NvInit /\ PbIdle /\ RmIdle /\ SaIdle /\ ScIdle /\ ArIdle /\ SsIdle
SpecNpv == InitNpv /\ [][NpvNext]_vars

\* run_financial_model on every input within the bounds
RunFrame == UNCHANGED <<pb_vars, nv_vars, sa_vars, sc_vars, ar_vars, ss_vars>>
RunNext ==
    \/ RmBuild /\ RunFrame
    \/ RmNpv /\ RunFrame
    \/ RmIrr /\ RunFrame
    \/ RmPayback /\ RunFrame
    \/ RmLcoe /\ RunFrame
    \/ RmDerive /\ RunFrame
InitRun == RmInit /\ PbIdle /\ NvIdle /\ SaIdle /\ ScIdle /\ ArIdle /\ SsIdle
SpecRun == InitRun /\ [][RunNext]_vars

\* sensitivity_analysis on every base case, parameter name, range and count
SensFrame == UNCHANGED <<pb_vars, nv_vars, rm_vars, sc_vars, ar_vars, ss_vars>>
SensNext ==
    \/ SaStart /\ SensFrame
    \/ SaPoint /\ SensFrame
    \/ SaReturn /\ SensFrame
InitSens == SaInit /\ PbIdle /\ NvIdle /\ RmIdle /\ ScIdle /\ ArIdle /\ SsIdle
SpecSens == InitSens /\ [][SensNext]_vars

\* scenario_comparison on every base case and scenario mapping
ScenFrame == UNCHANGED <<pb_vars, nv_vars, rm_vars, sa_vars, ar_vars, ss_vars>>
ScenNext ==
    \/ ScBaseCase /\ ScenFrame
    \/ ScScenario /\ ScenFrame
    \/ ScReturn /\ ScenFrame
InitScen == ScInit /\ PbIdle /\ NvIdle /\ RmIdle /\ SaIdle /\ ArIdle /\ SsIdle
SpecScen == InitScen /\ [][ScenNext]_vars

\* calculate_array_size on every requested capacity and module rating
ArrayNext == ArCall /\ UNCHANGED <<pb_vars, nv_vars, rm_vars, sa_vars, sc_vars, ss_vars>>
InitArray == ArInit /\ PbIdle /\ NvIdle /\ RmIdle /\ SaIdle /\ ScIdle /\ SsIdle
SpecArray == InitArray /\ [][ArrayNext]_vars

\* one use of get_session: every way the calls it makes can end
SessionFrame == UNCHANGED <<pb_vars, nv_vars, rm_vars, sa_vars, sc_vars, ar_vars>>
SessionNext ==
    \/ SsEnter /\ SessionFrame
    \/ SsUse /\ SessionFrame
    \/ SsBodyEnd /\ SessionFrame
    \/ SsCommit /\ SessionFrame
    \/ SsExcept /\ SessionFrame
    \/ SsRollback /\ SessionFrame
    \/ SsClose /\ SessionFrame
InitSession == SsInit /\ PbIdle /\ NvIdle /\ RmIdle /\ SaIdle /\ ScIdle /\ ArIdle
SpecSession == InitSession /\ [][SessionNext]_vars

\* either of the two sweeps, sensitivity_analysis or scenario_comparison
SweepsNext ==
    \/ SaStart /\ SensFrame
    \/ SaPoint /\ SensFrame
    \/ SaReturn /\ SensFrame
    \/ ScBaseCase /\ ScenFrame
    \/ ScScenario /\ ScenFrame
    \/ ScReturn /\ ScenFrame
InitSweeps == PbIdle /\ NvIdle /\ RmIdle /\ ((SaInit /\ ScIdle) \/ (SaIdle /\ ScInit)) /\ ArIdle /\ SsIdle
SpecSweeps == InitSweeps /\ [][SweepsNext]_vars

----------------------------------------------------------------------------
(* Properties of calculate_payback_period (SpecPayback) *)

\* the sum of the first k cash flows
PrefixSum(cf, k) == SumFrom(SubSeq(cf, 1, k), 1)

\* the 0-based year in which the cumulative cash flow first is >= 0; -1 if never
CrossingYear(cf) ==
    IF \A k \in 1..Len(cf) : ~RGe(PrefixSum(cf, k), Zero) THEN -1
    ELSE (CHOOSE k \in 1..Len(cf) :
            /\ RGe(PrefixSum(cf, k), Zero)
            /\ \A j \in 1..(k - 1) : ~RGe(PrefixSum(cf, j), Zero)) - 1

\* C1: when year 0 is negative and the cumulative cash flow first becomes
\* non-negative in year idx >= 1, not exactly (it is > 0 there), the payback
\* period lies strictly between idx - 1 and idx.
C1_PaybackInsideCrossingYear ==
    LET idx == CrossingYear(pb_cash_flows)
    IN  (/\ pb_pc = "done"
         /\ Len(pb_cash_flows) >= 1
         /\ RLt(pb_cash_flows[1], Zero)
         /\ idx >= 1
         /\ RGt(PrefixSum(pb_cash_flows, idx + 1), Zero))
        => (RLt(Whole(idx - 1), pb_result) /\ RLt(pb_result, Whole(idx)))

C2_ZeroIffYear0NonNegative ==
    (pb_pc = "done" /\ Len(pb_cash_flows) >= 1)
        => ((pb_result = Zero) <=> RGe(pb_cash_flows[1], Zero))

C2_Witness ==
    /\ pb_pc = "done"
    /\ Len(pb_cash_flows) >= 2
    /\ RLt(pb_cash_flows[1], Zero)
    /\ IsFinite(pb_result)
    /\ pb_result # Zero

\* C3: the payback period is +inf when no cumulative sum is >= 0, and a finite
\* number when some cumulative sum is >= 0; the call returns in both cases.
C3_InfIffNeverNonNegative ==
    pb_pc = "done" =>
        IF CrossingYear(pb_cash_flows) = -1
        THEN pb_result = PosInf
        ELSE IsFinite(pb_result)

C3_Witness ==
    /\ pb_pc = "done"
    /\ Len(pb_cash_flows) >= 2
    /\ \E k \in 1..Len(pb_cash_flows) : RGt(pb_cash_flows[k], Zero)
    /\ pb_result = PosInf

----------------------------------------------------------------------------
(* Properties of calculate_npv (SpecNpv) *)

NpvPrecondition ==
    /\ nv_pc = "done"
    /\ RLt(nv_cash_flows[1], Zero)
    /\ RGt(SumFrom(nv_cash_flows, 2), Zero)
    /\ RLt(nv_rate1, nv_rate2)

\* C4 as stated: with cf[0] < 0 and sum(cf[1:]) > 0 the NPV is strictly
\* decreasing in the discount rate, for any two rates other than -1.
C4_NpvDecreasingAnyRates == NpvPrecondition => RGt(nv_npv1, nv_npv2)

\* C4 as amended: with cf[0] < 0, every later flow >= 0 and sum(cf[1:]) > 0,
\* the NPV is strictly decreasing in the discount rate over the rates > -1.
C4_NpvDecreasing ==
    (/\ NpvPrecondition
     /\ \A t \in 2..Len(nv_cash_flows) : RGe(nv_cash_flows[t], Zero)
     /\ RGt(nv_rate1, Whole(-1)))
        => RGt(nv_npv1, nv_npv2)

C4_Witness ==
    /\ NpvPrecondition
    /\ Len(nv_cash_flows) >= 3
    /\ \A t \in 2..Len(nv_cash_flows) : RGt(nv_cash_flows[t], Zero)
    /\ RGt(nv_rate1, Zero)
    /\ RGt(nv_npv1, nv_npv2)

----------------------------------------------------------------------------
(* Properties of run_financial_model (SpecRun) *)

\* C7: the IRR solver is called only when the NPV is > 0; when the NPV is not
\* > 0 the solver is never called and the irr, computed and reported, is 0.0.
C7_IrrOnlyWhenNpvPositive ==
    IF "irr" \notin DOMAIN rm_locals THEN rm_irr_calls = 0
    ELSE IF RGt(rm_locals.npv, Zero)
    THEN rm_irr_calls = 1 /\ rm_locals.irr = calculate_irr(rm_cash_flows)
    ELSE /\ rm_irr_calls = 0
         /\ rm_locals.irr = Zero
         /\ rm_pc = "returned" => rm_result.irr = Zero

C7_Witness ==
    /\ rm_pc = "returned"
    /\ rm_locals.npv = Zero
    /\ rm_irr_calls = 0
    /\ rm_result.irr = Zero

\* C8: with project_lifetime_years <= 0 the call never returns; the error is
\* raised by the cash-flow construction, before any metric is computed.
C8_NonPositiveLifetimeRaisesInBuilder ==
    (rm_inputs.project_lifetime_years.n <= 0 /\ rm_pc # "build")
        => (rm_pc = "raised" /\ rm_locals = NoMetrics)

----------------------------------------------------------------------------
(* Properties of sensitivity_analysis (SpecSens) *)

SaTerminated == sa_pc \in {"returned", "raised"}

\* C5: a zero-width sweep (1.0, 1.0) of any field, for n >= 1, returns n
\* identical rows: parameter_value is the base value of the field and npv,
\* irr, payback_period are those of run_financial_model(base).
C5_ZeroWidthSweepEqualsBase ==
    (/\ SaTerminated
     /\ sa_parameter \in Fields
     /\ sa_variation_range = <<One, One>>
     /\ sa_num_points >= 1)
        => LET base == run_financial_model(sa_inputs).metrics
           IN  /\ sa_pc = "returned"
               /\ Len(sa_results) = sa_num_points
               /\ \A k \in DOMAIN sa_results :
                    /\ sa_results[k] = sa_results[1]
                    /\ Num(sa_results[k].parameter_value) = Num(sa_inputs[sa_parameter])
                    /\ sa_results[k].npv = base.npv
                    /\ sa_results[k].irr = base.irr
                    /\ sa_results[k].payback_period = base.payback_period_years

\* C9: with a parameter name that is not a field the call fails with an
\* error, before any model run and before any row, whatever the range and
\* num_points.
C9_UnknownParameterFailsFirst ==
    sa_parameter \notin Fields
        => /\ sa_runs = 0
           /\ sa_results = <<>>
           /\ sa_pc # "returned"

\* C10: the call returns exactly num_points rows, in sweep order, whose
\* multipliers are low + i * (high - low) / (n - 1) for i = 0..n-1 (low alone
\* for n = 1, no row for n = 0), with parameter_value the base value times
\* the multiplier.
C10_EvenlySpacedRows ==
    (/\ SaTerminated
     /\ sa_parameter \in Fields
     /\ sa_num_points >= 0)
        => LET low == sa_variation_range[1]
               high == sa_variation_range[2]
               n == sa_num_points
               expected(i) ==
                   IF n = 1 THEN low
                   ELSE RAdd(low, RDiv(RMul(Whole(i), RSub(high, low)), Whole(n - 1)))
           IN  /\ sa_pc = "returned"
               /\ Len(sa_results) = n
               /\ \A k \in DOMAIN sa_results :
                    /\ sa_results[k].multiplier = expected(k - 1)
                    /\ Num(sa_results[k].parameter_value)
                         = RMul(Num(sa_inputs[sa_parameter]), expected(k - 1))
               /\ n >= 1 => sa_results[1].multiplier = low
               /\ n >= 2 => sa_results[n].multiplier = high

----------------------------------------------------------------------------
(* Properties of scenario_comparison (SpecScen) *)

\* C6: the first row of the table is labelled "Base Case" and carries the
\* npv, irr, payback_period_years, lcoe and roi_percentage of
\* run_financial_model(base), whatever the scenarios.
C6_BaseCaseRowEqualsBaseRun ==
    sc_pc = "returned"
        => LET base == run_financial_model(sc_base_inputs).metrics
           IN  /\ Len(sc_table) >= 1
               /\ sc_table[1].scenario = "Base Case"
               /\ sc_table[1].npv = base.npv
               /\ sc_table[1].irr = base.irr
               /\ sc_table[1].payback_period_years = base.payback_period_years
               /\ sc_table[1].lcoe = base.lcoe
               /\ sc_table[1].roi_percentage = base.roi_percentage

C6_Witness ==
    /\ sc_pc = "returned"
    /\ Len(sc_table) = 3
    /\ sc_scenarios[1].modifications # <<>>
    /\ sc_table[2].npv # sc_table[1].npv
    /\ sc_table[2].roi_percentage # sc_table[1].roi_percentage

\* C11: the table has exactly 1 + |scenarios| rows: the base case first, then
\* one row per scenario in the iteration order of the mapping, each labelled
\* with its scenario name (not sorted, not deduplicated); the call fails to
\* return only when the model run of a scenario's own inputs raises.
C11_RowsInScenarioOrder ==
    /\ sc_pc = "returned" =>
          /\ Len(sc_table) = 1 + Len(sc_scenarios)
          /\ sc_table[1].scenario = "Base Case"
          /\ \A k \in DOMAIN sc_scenarios :
                sc_table[k + 1].scenario = sc_scenarios[k].name
    /\ sc_pc = "raised" =>
          /\ sc_i < Len(sc_scenarios)
          /\ run_financial_model(ApplyModifications(Clone(sc_base_inputs),
                 sc_scenarios[sc_i + 1].modifications)).error # "none"

C11_Witness ==
    /\ sc_pc = "returned"
    /\ Len(sc_table) = 3
    /\ sc_table[2].scenario = "Pessimistic"
    /\ sc_table[3].scenario = "Base Case"

----------------------------------------------------------------------------
(* Properties of the two sweeps (SpecSweeps) *)

\* the fields of modified that differ from base are among names, and modified
\* has no attribute besides the fields and names
OnlyOverwritten(base, modified, names) ==
    /\ DOMAIN modified \subseteq Fields \cup names
    /\ \A f \in Fields \ names : modified[f] = base[f]

\* the parameter names a modifications dictionary lists
Listed(modifications) == {modifications[k].param : k \in DOMAIN modifications}

\* one step of either sweep keeps the base object and evaluates a fresh clone
C12_Step ==
    /\ sa_inputs' = sa_inputs
    /\ sc_base_inputs' = sc_base_inputs
    /\ (sa_pc = "loop" /\ sa_i < Len(sa_multipliers)) =>
          OnlyOverwritten(sa_inputs, sa_modified_inputs', {sa_parameter})
    /\ (sc_pc = "loop" /\ sc_i < Len(sc_scenarios)) =>
          OnlyOverwritten(sc_base_inputs, sc_modified_inputs',
                          Listed(sc_scenarios[sc_i + 1].modifications))
    /\ \A k \in DOMAIN sa_results' :
          sa_results'[k] =
              SensitivityRow(GetAttr(sa_inputs, sa_parameter), sa_multipliers'[k],
                  run_financial_model(
                      ModifiedInputs(sa_inputs, sa_parameter,
                                     GetAttr(sa_inputs, sa_parameter),
                                     sa_multipliers'[k])).metrics)
    /\ \A k \in DOMAIN sc_scenarios :
          k + 1 \in DOMAIN sc_results' =>
              sc_results'[k + 1] =
                  LabelledRow(
                      run_financial_model(
                          ApplyModifications(Clone(sc_base_inputs),
                              sc_scenarios[k].modifications)).metrics,
                      sc_scenarios[k].name)

\* C12: neither sweep modifies the base object; every point or scenario is
\* evaluated on a fresh clone of the base in which only the named or listed
\* fields are overwritten, so every row is the one computed from the base and
\* its own multiplier or overrides, whatever the rows before it.
C12_BaseUntouchedFreshClones == [][C12_Step]_vars

\* a scenario without overrides follows one that overrides total_capex, and
\* its row repeats the base row
C12_Witness ==
    /\ sc_pc = "returned"
    /\ Len(sc_scenarios) = 2
    /\ sc_scenarios[1].modifications = <<Override("total_capex", PyFloat(Whole(4)))>>
    /\ sc_scenarios[2].modifications = <<>>
    /\ sc_table[2].npv # sc_table[1].npv
    /\ sc_table[3].npv = sc_table[1].npv
    /\ sc_base_inputs.total_capex = PyFloat(Whole(10))

----------------------------------------------------------------------------
(* Properties of the cash-flow series (SpecRun) *)

\* C13: for a lifetime N >= 1 the series has N + 1 entries; entry 0 is
\* -(total_capex - incentives_total), which is positive when the incentives
\* exceed the capex; entry k in 1..N is
\* annual_production * (1 - degradation)^(k-1) * rate * (1 + escalation)^(k-1)
\* - opex * (1 + escalation)^(k-1).
C13_CashFlowSeries ==
    LET N == rm_inputs.project_lifetime_years.n
        capex == Num(rm_inputs.total_capex)
        incentives == Num(rm_inputs.incentives_total)
        kwh == Num(rm_inputs.annual_production_kwh)
        rate == Num(rm_inputs.electricity_rate_kwh)
        opex == Num(rm_inputs.opex_annual)
        keep == RSub(One, Num(rm_inputs.degradation_rate))
        grow == RAdd(One, Num(rm_inputs.escalation_rate))
    IN  (rm_pc \notin {"idle", "build"} /\ N >= 1) =>
            /\ Len(rm_cash_flows) = N + 1
            /\ rm_cash_flows[1] = RSub(incentives, capex)
            /\ RGt(incentives, capex) => RGt(rm_cash_flows[1], Zero)
            /\ \A k \in 1..N :
                  rm_cash_flows[k + 1] =
                      RSub(RMul(RMul(RMul(kwh, RPow(keep, k - 1)), rate),
                                RPow(grow, k - 1)),
                           RMul(opex, RPow(grow, k - 1)))

\* incentives above the capex, two years or more, degradation and escalation
C13_Witness ==
    /\ rm_pc \notin {"idle", "build"}
    /\ rm_inputs.project_lifetime_years.n >= 2
    /\ Len(rm_cash_flows) = rm_inputs.project_lifetime_years.n + 1
    /\ RGt(rm_cash_flows[1], Zero)
    /\ rm_inputs.degradation_rate # PyFloat(Zero)
    /\ rm_inputs.escalation_rate # PyFloat(Zero)
    /\ rm_cash_flows[3] # rm_cash_flows[2]

\* C15: whenever the IRR solver is called, the series holds a strictly
\* negative and a strictly positive cash flow.
C15_IrrSeriesChangesSign ==
    rm_irr_calls >= 1 =>
        /\ \E k \in DOMAIN rm_cash_flows : RLt(rm_cash_flows[k], Zero)
        /\ \E k \in DOMAIN rm_cash_flows : RGt(rm_cash_flows[k], Zero)

----------------------------------------------------------------------------
(* Properties of calculate_array_size (SpecArray) *)

\* a call that returned, for a positive capacity and a positive module power
ArraySized ==
    /\ ar_pc = "returned"
    /\ RGt(ar_system_capacity_kw, Zero)
    /\ ar_module_power_w > 0

\* n is the smallest integer with n * module_power_w >= system_capacity_kw * 1000
SmallestCover(n) ==
    LET watts == RMul(ar_system_capacity_kw, Whole(1000))
    IN  /\ RGe(Whole(n * ar_module_power_w), watts)
        /\ RLt(Whole((n - 1) * ar_module_power_w), watts)

\* the requested watts are a whole number of modules
ExactMultiple ==
    LET modules == RDiv(RMul(ar_system_capacity_kw, Whole(1000)),
                        Whole(ar_module_power_w))
    IN  modules.d = 1

\* 10 kW at 400 W gives 25 modules and 10.0 kW
TenKilowattCase ==
    (ar_system_capacity_kw = Whole(10) /\ ar_module_power_w = 400) =>
        /\ ar_result.num_modules = 25
        /\ ar_result.actual_system_capacity_kw = Whole(10)

\* C14 as stated: num_modules is the smallest n with
\* n * module_power_w >= system_capacity_kw * 1000, so actual_system_capacity_kw
\* is never below the requested capacity and exceeds it by less than one
\* module; an exact multiple adds no module (10 kW at 400 W: 25 and 10.0).
C14_ActualNeverBelowRequested ==
    ArraySized =>
        LET n == ar_result.num_modules
            actual == ar_result.actual_system_capacity_kw
        IN  /\ SmallestCover(n)
            /\ RGe(actual, ar_system_capacity_kw)
            /\ RLt(RSub(actual, ar_system_capacity_kw),
                   Rat(ar_module_power_w, 1000))
            /\ ExactMultiple =>
                  Whole(n * ar_module_power_w) =
                      RMul(ar_system_capacity_kw, Whole(1000))
            /\ TenKilowattCase

\* C14: num_modules is the smallest n with
\* n * module_power_w >= system_capacity_kw * 1000; the capacity of the n
\* modules, n * module_power_w / 1000, is never below the requested capacity
\* and exceeds it by less than one module; actual_system_capacity_kw is that
\* capacity rounded to 2 decimals, at most 0.005 kW away from it; an exact
\* multiple adds no module (10 kW at 400 W: 25 and 10.0).
C14_SmallestCoverRoundedCapacity ==
    ArraySized =>
        LET n == ar_result.num_modules
            installed == Rat(n * ar_module_power_w, 1000)
            actual == ar_result.actual_system_capacity_kw
        IN  /\ SmallestCover(n)
            /\ RGe(installed, ar_system_capacity_kw)
            /\ RLt(RSub(installed, ar_system_capacity_kw),
                   Rat(ar_module_power_w, 1000))
            /\ RLe(RAbs(RSub(actual, installed)), Rat(5, 1000))
            /\ RMul(actual, Whole(100)).d = 1
            /\ ExactMultiple =>
                  Whole(n * ar_module_power_w) =
                      RMul(ar_system_capacity_kw, Whole(1000))
            /\ TenKilowattCase

\* two modules cover the request exactly and the reported capacity is below it
C14_Witness ==
    /\ ArraySized
    /\ ar_result.num_modules = 2
    /\ ExactMultiple
    /\ RLt(ar_result.actual_system_capacity_kw, ar_system_capacity_kw)

----------------------------------------------------------------------------
(* Properties of get_session (SpecSession) *)

\* the number of calls of a session method
Calls(method) == Cardinality({k \in DOMAIN ss_calls : ss_calls[k] = method})

\* the use is over and a session had been created
SessionUsed == ss_pc = "done" /\ ss_created

\* close is called exactly once, as the last session operation
ClosedOnceAndLast ==
    /\ Calls("close") = 1
    /\ ss_calls[Len(ss_calls)] = "close"

\* the exception the body or the commit raised; NoException if neither did
OriginalException ==
    IF ss_body \in {"Exception", "BaseException"} THEN Exc("body", ss_body)
    ELSE IF ss_commit \in {"Exception", "BaseException"} THEN Exc("commit", ss_commit)
    ELSE NoException

\* C17 as stated: the session is closed exactly once and last; commit is
\* attempted iff the body finished without raising; rollback is invoked iff
\* the body or the commit raised, and then the original exception reaches
\* the caller after the rollback.
C17_RollbackIffRaised ==
    SessionUsed =>
        /\ ClosedOnceAndLast
        /\ Calls("commit") >= 1 <=> ss_body = "finished"
        /\ Calls("rollback") >= 1 <=> OriginalException # NoException
        /\ OriginalException # NoException => ss_propagated = OriginalException

\* C17: once the session is created, close is called exactly once and last;
\* commit is attempted (once) iff the body finished without raising; rollback
\* is invoked (once) iff the body or the commit raised an exception derived
\* from Exception; when the body or the commit raised, an exception always
\* reaches the caller: the original one, unless rollback or close raised,
\* and then the exception of the last of these to raise.
C17_RollbackIffExceptionCaught ==
    SessionUsed =>
        /\ ClosedOnceAndLast
        /\ Calls("commit") = (IF ss_body = "finished" THEN 1 ELSE 0)
        /\ Calls("rollback") = (IF OriginalException.kind = "Exception" THEN 1 ELSE 0)
        /\ Calls("rollback") = 1 => ss_calls[Len(ss_calls) - 1] = "rollback"
        /\ OriginalException # NoException => ss_propagated # NoException
        /\ ss_propagated =
              (IF ss_close # "ok" THEN Exc("close", ss_close)
               ELSE IF ss_rollback \notin {"ok", "none"} THEN Exc("rollback", ss_rollback)
               ELSE OriginalException)

\* the body used the session and finished, the commit failed, the rollback
\* and the close went through, and the commit's exception reached the caller
C17_Witness ==
    /\ SessionUsed
    /\ ss_body = "finished"
    /\ ss_calls = <<"add", "query", "commit", "rollback", "close">>
    /\ ss_propagated = Exc("commit", "Exception")

====
